---- MODULE Spec2Model ----
(***************************************************************************)
(* A model of pewpew's trace-context store (src/pewpew/_context.py), the   *)
(* TraceContext scopes that push and pop it, the call shim of              *)
(* src/pewpew/_decorator.py and the Beam stopwatch of src/pewpew/beam.py.  *)
(*                                                                         *)
(* Python references are modelled as object numbers: TraceContext objects  *)
(* are 1..MaxCtx and Beam objects 1..MaxBeams, in construction order, and  *)
(* the reference None is the number None.  An optional argument is a       *)
(* sequence of length at most one: Nothing for None, Some(x) for x.        *)
(* Every store operation runs wholly inside `with _lock`, so each is one   *)
(* atomic action; SpecLock splits each into taking the lock, the body and  *)
(* giving the lock back.                                                   *)
(***************************************************************************)
EXTENDS Integers, Sequences, FiniteSets, TLC

\* ------------------------------------------------------------------ bounds
\* TraceContext objects constructed in a run (at most / by one thread with
\* beams and queries / by the threads with beams and queries)
MaxCtx == 4
MaxSeqCtx == 3
MaxConcCtx == 2
\* Beam objects constructed in a run (by the threads / by one thread)
MaxConcBeams == 1
MaxBeams == 2
\* TraceContext and Beam objects constructed in a run with queries by name
\* and index
MaxQueryCtx == 2
MaxQueryBeams == 1
\* The largest configured history size
MaxHist == 2
NumThreads == 2
\* Beam and TraceContext objects constructed in a run that activates beams
MaxTimedBeams == 1
MaxTimedCtx == 1
\* The number of readings of time.perf_counter in a run
MaxClock == 4
\* TraceContext and Beam objects constructed in a run that follows the lock
MaxLockCtx == 1
MaxLockBeams == 1
MaxReentryCtx == 2      \* TraceContext objects constructed in SpecReentry
MaxReentryDepth == 3    \* `with` blocks of TraceContexts open at once in SpecReentry
MaxReentryTraces == 2   \* traces completed in SpecReentry

\* --------------------------------------------------------------- constants
None == 0

Nothing == <<>>
Some(x) == <<x>>

Ctx == 1..MaxCtx
Beam == 1..MaxBeams
Threads == 1..NumThreads
Names == {"f", "g"}
TracedFn == "f"
Unnamed == "?"
BeamName == "big_loop"

\* The values PEWPEW_TRACE_HISTORY_SIZE can have when it is read: unset, a
\* decimal numeral, or text that is no numeral.
EnvValues == {Nothing, Some("abc")} \cup {Some(ToString(m)) : m \in 0..MaxHist}
NameArgs == {Nothing} \cup {Some(n) : n \in Names}
IdxArgs == {Nothing} \cup {Some(i) : i \in (-(MaxHist + 1))..MaxHist}

VARIABLES
    nctx,           \* number of TraceContext objects constructed so far
    name,           \* TraceContext._name
    parent,         \* TraceContext._parent
    child,          \* TraceContext._child
    beams,          \* TraceContext._beams
    nbeams,         \* number of Beam objects constructed so far
    root,           \* ContextStore._root
    head,           \* ContextStore._head
    trace_history,  \* ContextStore._trace_history (left = oldest)
    maxlen,         \* the maxlen of that deque
    stack,          \* per thread: the TraceContext scopes entered and not yet exited
    completed,      \* history variable: every root appended to the installed store
    last,           \* what the most recent operation did and returned
    start_times,    \* Beam._start_times
    end_times,      \* Beam._end_times
    start,          \* Beam._start (Beam._stop is never anything but None)
    open,           \* per Beam: the `with beam` scopes entered and not yet exited
    clock,          \* the latest reading of time.perf_counter
    lock,           \* _lock: the thread that owns it and how often it took it
    pc,             \* per thread: the store operation in progress and its position
    beam_name,      \* Beam.name
    beam_id,        \* Beam._id
    result          \* the list a get_trace call returned and its caller still holds

vars == <<nctx, name, parent, child, beams, nbeams, root, head, trace_history,
          maxlen, stack, completed, last, start_times, end_times, start, open,
          clock, lock, pc, beam_name, beam_id, result>>

ctxVars == <<nctx, name, parent, child, beams>>
storeVars == <<root, head, trace_history, maxlen, completed>>
beamVars == <<start_times, end_times, start, open, clock>>
lockVars == <<lock, pc>>
beamObjs == <<nbeams, beam_name, beam_id>>

\* ----------------------------------------------------------------- helpers
Top(s) == s[Len(s)]
Front(s) == SubSeq(s, 1, Len(s) - 1)
Min(a, b) == IF a < b THEN a ELSE b

RECURSIVE Reverse(_)
Reverse(s) == IF s = <<>> THEN <<>> ELSE Append(Reverse(Tail(s)), Head(s))

\* What an operation did: its name, the TraceContext it was called on, the node
\* it removed from the head of the store, the arguments of get_trace, the beams
\* and the error it returned, and whether an exception leaves the call; for a
\* Beam operation the Beam and the durations returned, for clear_trace_history
\* the environment value it read.
Ret(op, c, popped, nm, idx, bs, err, raised) ==
    [op |-> op, ctx |-> c, popped |-> popped, nm |-> nm, idx |-> idx,
     beams |-> bs, err |-> err, raised |-> raised, beam |-> None,
     timings |-> <<>>, env |-> Nothing]

\* What an operation of Beam b did: its name, the durations and the error it
\* returned.
BeamRet(op, b, tm, err) ==
    [Ret(op, None, None, Nothing, Nothing, <<>>, err, err # "none")
         EXCEPT !.beam = b, !.timings = tm]

\* -------------------------------------------------------------------- lock
\* A thread that is in no store operation.
Idle == [op |-> "idle", at |-> "idle", env |-> Nothing]

\* The operations whose body is a `with _lock:` block.
LockOps == {"push", "pop", "track_beam", "get_trace", "clear_trace_history"}

\* Mutant of acquire: the lock is taken whoever owns it.
acquire_unguarded(t) ==
    lock' = [owner |-> t, count |-> lock.count + 1]

\* Mutant of acquire: a plain Lock, which its owner cannot take again.
acquire_nonreentrant(t) ==
    /\ lock.owner = None
    /\ lock' = [owner |-> t, count |-> lock.count + 1]

\* _lock.acquire() by thread t (entry of `with _lock:`): an RLock is taken
\* when it is free or owned by t, and counts how often its owner took it.
acquire(t) ==
    /\ lock.owner \in {None, t}
    /\ lock' = [owner |-> t, count |-> lock.count + 1]

\* _lock.release() by thread t (exit of `with _lock:`)
release(t) ==
    lock' = [owner |-> IF lock.count = 1 THEN None ELSE lock.owner,
             count |-> lock.count - 1]

\* ------------------------------------------------------------- environment
\* int(_x) on the text of the environment variable: the number a decimal
\* numeral denotes, and a ValueError (here Nothing) for any other text.
ParseInt(txt) ==
    LET hits == {m \in 0..MaxHist : ToString(m) = txt}
    IN  IF hits = {} THEN Nothing ELSE Some(CHOOSE m \in hits : TRUE)

\* _get_hist_len(): [err, size], size an optional int.
get_hist_len(env) ==
    IF env = Nothing THEN [err |-> "none", size |-> Nothing]
    ELSE IF ParseInt(env[1]) = Nothing THEN [err |-> "ValueError", size |-> Nothing]
    ELSE [err |-> "none", size |-> ParseInt(env[1])]

\* ------------------------------------------------------------------- deque
\* Mutant of deque_append: a full deque keeps what it has and drops the new item.
deque_append_keep_old(d, m, x) ==
    IF m # Nothing /\ Len(d) >= m[1] THEN d ELSE Append(d, x)

\* collections.deque(maxlen=m).append(x): append on the right, then drop from
\* the left while the deque is longer than maxlen.
deque_append(d, m, x) ==
    LET a == Append(d, x)
    IN  IF m # Nothing /\ Len(a) > m[1] THEN Tail(a) ELSE a

\* Mutant of deque_getitem: a negative index is out of range.
deque_getitem_no_negative(d, i) ==
    IF i >= 0 /\ i < Len(d) THEN Some(d[i + 1]) ELSE Nothing

\* deque[i] with Python's indexing: negative indices count from the right.
\* Nothing stands for IndexError.
deque_getitem(d, i) ==
    LET j == IF i < 0 THEN i + Len(d) ELSE i
    IN  IF j >= 0 /\ j < Len(d) THEN Some(d[j + 1]) ELSE Nothing

\* ------------------------------------------------------------ TraceContext
\* Mutant of link_child: the back link is set, the child link is not.
link_child_parent_only(p, c) ==
    /\ parent' = [parent EXCEPT ![c] = p]
    /\ UNCHANGED child

\* Mutant of link_child: the child is also given the parent as its child.
link_child_cyclic(p, c) ==
    /\ child' = [child EXCEPT ![p] = c, ![c] = p]
    /\ parent' = [parent EXCEPT ![c] = p]

\* TraceContext.link_child
link_child(p, c) ==
    /\ child' = [child EXCEPT ![p] = c]
    /\ parent' = [parent EXCEPT ![c] = p]

\* Mutant of deepcopy: the result refers to the live Beam.
no_copy(b) == [ref |-> b]

\* TraceContext.beams: deep copies of the beams attributed to this node.  A
\* copy is an object of its own, the record of the values the Beam's fields
\* had when it was taken.
deepcopy(b) ==
    [id |-> beam_id[b], name |-> beam_name[b], start_times |-> start_times[b],
     end_times |-> end_times[b]]
beams_property(c) == [i \in 1..Len(beams[c]) |-> deepcopy(beams[c][i])]

\* -------------------------------------------------------------------- Beam
\* time.perf_counter(): a monotonic clock.  A reading is represented by its
\* ordinal among the readings taken, so each is later than the one before.
perf_counter == {now \in {clock + 1} : now <= MaxClock}

\* str(uuid.uuid4()) in Beam.__init__: an identifier no other Beam has,
\* represented by the ordinal of the Beam among those constructed.
uuid4 == nbeams + 1

\* Mutant of clear: the recorded stops are kept.
clear_keeps_stops(b) ==
    /\ start' = [start EXCEPT ![b] = Nothing]
    /\ start_times' = [start_times EXCEPT ![b] = <<>>]
    /\ UNCHANGED end_times

\* Beam.clear (with Beam._reset_counter)
clear(b) ==
    /\ start' = [start EXCEPT ![b] = Nothing]
    /\ start_times' = [start_times EXCEPT ![b] = <<>>]
    /\ end_times' = [end_times EXCEPT ![b] = <<>>]

\* Beam.timings (with Beam._zipped): [err, value]
timings(b) ==
    IF Len(start_times[b]) # Len(end_times[b])
    THEN [err |-> "RuntimeError", value |-> <<>>]
    ELSE [err |-> "none",
          value |-> [i \in 1..Len(start_times[b]) |->
                        end_times[b][i] - start_times[b][i]]]

\* ------------------------------------------------------------ ContextStore
\* Mutant of push: every pushed context starts a chain of its own.
push_new_root(c) ==
    /\ root' = c
    /\ head' = c
    /\ UNCHANGED <<parent, child>>

\* _ContextStore.push
push(c) ==
    IF root = None
    THEN /\ root' = c
         /\ head' = c
         /\ UNCHANGED <<parent, child>>
    ELSE /\ link_child(head, c)
         /\ head' = c
         /\ UNCHANGED root

\* Mutant of pop: the head goes back to the root instead of the parent.
pop_to_root ==
    IF head = None
    THEN UNCHANGED <<root, head, trace_history, completed>>
    ELSE /\ head' = IF head = root THEN None ELSE root
         /\ IF head = root
            THEN /\ root' = None
                 /\ trace_history' = deque_append(trace_history, maxlen, head)
                 /\ completed' = Append(completed, head)
            ELSE UNCHANGED <<root, trace_history, completed>>

\* Mutant of pop: the root is not cleared when the chain has unwound.
pop_keeps_root ==
    IF head = None
    THEN UNCHANGED <<root, head, trace_history, completed>>
    ELSE /\ head' = parent[head]
         /\ UNCHANGED root
         /\ IF parent[head] = None
            THEN /\ trace_history' = deque_append(trace_history, maxlen, head)
                 /\ completed' = Append(completed, head)
            ELSE UNCHANGED <<trace_history, completed>>

\* Mutant of pop: every popped node is appended to the history.
pop_appends_every ==
    IF head = None
    THEN UNCHANGED <<root, head, trace_history, completed>>
    ELSE /\ head' = parent[head]
         /\ root' = IF parent[head] = None THEN None ELSE root
         /\ trace_history' = deque_append(trace_history, maxlen, head)
         /\ completed' = Append(completed, head)

\* Mutant of pop: a pop of the empty store records a trace.
pop_empty_appends ==
    IF head = None
    THEN /\ trace_history' = deque_append(trace_history, maxlen, root)
         /\ completed' = Append(completed, root)
         /\ UNCHANGED <<root, head>>
    ELSE /\ head' = parent[head]
         /\ IF parent[head] = None
            THEN /\ root' = None
                 /\ trace_history' = deque_append(trace_history, maxlen, head)
                 /\ completed' = Append(completed, head)
            ELSE UNCHANGED <<root, trace_history, completed>>

\* _ContextStore.pop
pop ==
    IF head = None
    THEN UNCHANGED <<root, head, trace_history, completed>>
    ELSE /\ head' = parent[head]
         /\ IF parent[head] = None
            THEN /\ root' = None
                 /\ trace_history' = deque_append(trace_history, maxlen, head)
                 /\ completed' = Append(completed, head)
            ELSE UNCHANGED <<root, trace_history, completed>>

\* Mutant of track_beam: with no head the beam goes to the newest trace.
track_beam_newest_trace(b) ==
    IF head # None
    THEN beams' = [beams EXCEPT ![head] = Append(@, b)]
    ELSE IF trace_history # <<>>
    THEN beams' = [beams EXCEPT ![Top(trace_history)] = Append(@, b)]
    ELSE UNCHANGED beams

\* _ContextStore.track_beam
track_beam(b) ==
    IF head # None
    THEN beams' = [beams EXCEPT ![head] = Append(@, b)]
    ELSE UNCHANGED beams

\* utils.iterables.find_first with true_fn = (t.name == nm)
RECURSIVE find_first(_, _)
find_first(it, nm) ==
    IF it = <<>> THEN None
    ELSE IF name[Head(it)] = nm THEN Head(it)
    ELSE find_first(Tail(it), nm)

\* Mutant of flatten: a node's beams come after those of its descendants.
RECURSIVE flatten_child_first(_)
flatten_child_first(trace) ==
    IF trace = None THEN <<>>
    ELSE flatten_child_first(child[trace]) \o beams_property(trace)

\* The flattening loop of get_trace: walk the child links from `trace`.
RECURSIVE flatten(_)
flatten(trace) ==
    IF trace = None THEN <<>>
    ELSE beams_property(trace) \o flatten(child[trace])

\* Mutant of get_trace: the history is indexed without the emptiness test.
get_trace_unguarded(nm, idx) ==
    LET idx1 == IF nm = Nothing /\ idx = Nothing THEN Some(-1) ELSE idx
    IN  IF idx1 # Nothing
        THEN LET trace == deque_getitem(trace_history, idx1[1])
             IN  IF trace = Nothing THEN [err |-> "IndexError", beams |-> <<>>]
                 ELSE [err |-> "none", beams |-> flatten(trace[1])]
        ELSE IF trace_history = <<>> THEN [err |-> "none", beams |-> <<>>]
        ELSE [err |-> "TypeError", beams |-> <<>>]

\* Mutant of get_trace: a name, when given, selects the trace before the index.
get_trace_name_first(nm, idx) ==
    LET idx1 == IF nm = Nothing /\ idx = Nothing THEN Some(-1) ELSE idx
    IN  IF trace_history = <<>> THEN [err |-> "none", beams |-> <<>>]
        ELSE IF nm # Nothing THEN [err |-> "TypeError", beams |-> <<>>]
        ELSE LET trace == deque_getitem(trace_history, idx1[1])
             IN  IF trace = Nothing THEN [err |-> "IndexError", beams |-> <<>>]
                 ELSE [err |-> "none", beams |-> flatten(trace[1])]

\* _ContextStore.get_trace(name, idx): [err, beams].  A deque cannot be
\* sliced, so the name lookup of line 130 raises TypeError.
get_trace(nm, idx) ==
    LET idx1 == IF nm = Nothing /\ idx = Nothing THEN Some(-1) ELSE idx
    IN  IF trace_history = <<>> THEN [err |-> "none", beams |-> <<>>]
        ELSE IF idx1 # Nothing
        THEN LET trace == deque_getitem(trace_history, idx1[1])
             IN  IF trace = Nothing THEN [err |-> "IndexError", beams |-> <<>>]
                 ELSE [err |-> "none", beams |-> flatten(trace[1])]
        ELSE [err |-> "TypeError", beams |-> <<>>]

\* Whether Beam b has been attributed to some context.
IsTracked(b) == \E c \in Ctx : \E i \in 1..Len(beams[c]) : beams[c][i] = b

\* -------------------------------------------------------------------- Init
\* The state after `import pewpew`: no TraceContext or Beam exists and the
\* singleton store was built from the environment, which held a value int()
\* accepts (otherwise the import fails and there is no program).
Init ==
    /\ nctx = 0
    /\ name = [c \in Ctx |-> Unnamed]
    /\ parent = [c \in Ctx |-> None]
    /\ child = [c \in Ctx |-> None]
    /\ beams = [c \in Ctx |-> <<>>]
    /\ nbeams = 0
    /\ root = None
    /\ head = None
    /\ trace_history = <<>>
    /\ \E env \in EnvValues :
          /\ get_hist_len(env).err = "none"
          /\ maxlen = get_hist_len(env).size
    /\ stack = [t \in Threads |-> <<>>]
    /\ completed = <<>>
    /\ last = Ret("import", None, None, Nothing, Nothing, <<>>, "none", FALSE)
    /\ start_times = [b \in Beam |-> <<>>]
    /\ end_times = [b \in Beam |-> <<>>]
    /\ start = [b \in Beam |-> Nothing]
    /\ open = [b \in Beam |-> 0]
    /\ clock = 0
    /\ lock = [owner |-> None, count |-> 0]
    /\ pc = [t \in Threads |-> Idle]
    /\ beam_name = [b \in Beam |-> Unnamed]
    /\ beam_id = [b \in Beam |-> None]
    /\ result = <<>>

\* ----------------------------------------------------------------- actions
\* TraceContext.__exit__ returns None, so an exception raised by the body of
\* the `with` is not suppressed.
exit_suppresses == FALSE

\* `with TraceContext(n)` is entered by thread t (Decorator.__call__ line 31):
\* TraceContext.__init__ then TraceContext.__enter__.
Enter(t, n) ==
    /\ nctx < MaxCtx
    /\ nctx' = nctx + 1
    /\ name' = [name EXCEPT ![nctx + 1] = n]
    /\ push(nctx + 1)
    /\ stack' = [stack EXCEPT ![t] = Append(@, nctx + 1)]
    /\ last' = Ret("enter", nctx + 1, None, Nothing, Nothing, <<>>, "none", FALSE)
    /\ UNCHANGED <<beams, beamObjs, trace_history, maxlen, completed>>

\* `with c:` is entered by thread t for a TraceContext object c constructed
\* earlier (entered before, or still entered): TraceContext.__enter__ alone.
ReEnter(t, c) ==
    /\ c <= nctx
    /\ push(c)
    /\ stack' = [stack EXCEPT ![t] = Append(@, c)]
    /\ last' = Ret("enter", c, None, Nothing, Nothing, <<>>, "none", FALSE)
    /\ UNCHANGED <<nctx, name, beams, beamObjs, trace_history, maxlen, completed>>

\* Mutant of Exit: the store is popped only when the body returned normally.
Exit_no_pop_on_error(t, exc) ==
    /\ stack[t] # <<>>
    /\ IF exc THEN UNCHANGED <<root, head, trace_history, completed>> ELSE pop
    /\ stack' = [stack EXCEPT ![t] = Front(@)]
    /\ last' = Ret("exit", Top(stack[t]), IF exc THEN None ELSE head, Nothing,
                   Nothing, <<>>, "none", exc /\ ~exit_suppresses)
    /\ UNCHANGED <<nctx, name, parent, child, beams, beamObjs, maxlen>>

\* The body of thread t's innermost `with TraceContext` ends, by returning
\* (exc = FALSE) or by raising (exc = TRUE), and TraceContext.__exit__ runs.
Exit(t, exc) ==
    /\ stack[t] # <<>>
    /\ pop
    /\ stack' = [stack EXCEPT ![t] = Front(@)]
    /\ last' = Ret("exit", Top(stack[t]), head, Nothing, Nothing, <<>>, "none",
                   exc /\ ~exit_suppresses)
    /\ UNCHANGED <<nctx, name, parent, child, beams, beamObjs, maxlen>>

\* Beam.__init__
BeamInit ==
    /\ nbeams < MaxBeams
    /\ nbeams' = nbeams + 1
    /\ beam_name' = [beam_name EXCEPT ![nbeams + 1] = BeamName]
    /\ clear(nbeams + 1)
    /\ beam_id' = [beam_id EXCEPT ![nbeams + 1] = uuid4]
    /\ last' = Ret("Beam", None, None, Nothing, Nothing, <<>>, "none", FALSE)
    /\ UNCHANGED <<ctxVars, storeVars, stack, open, clock>>

\* Mutant of BeamEnter: entering a Beam announces it to the store.
BeamEnter_tracks(b) ==
    /\ b <= nbeams
    /\ \E now \in perf_counter :
          /\ start' = [start EXCEPT ![b] = Some(now)]
          /\ start_times' = [start_times EXCEPT ![b] = Append(@, now)]
          /\ clock' = now
    /\ open' = [open EXCEPT ![b] = @ + 1]
    /\ track_beam(b)
    /\ last' = BeamRet("beam_enter", b, <<>>, "none")
    /\ UNCHANGED <<nctx, name, parent, child, beamObjs, storeVars, stack, end_times>>

\* Beam.__enter__ of Beam b: `with b:` is entered
BeamEnter(b) ==
    /\ b <= nbeams
    /\ \E now \in perf_counter :
          /\ start' = [start EXCEPT ![b] = Some(now)]
          /\ start_times' = [start_times EXCEPT ![b] = Append(@, now)]
          /\ clock' = now
    /\ open' = [open EXCEPT ![b] = @ + 1]
    /\ last' = BeamRet("beam_enter", b, <<>>, "none")
    /\ UNCHANGED <<ctxVars, beamObjs, storeVars, stack, end_times>>

\* Beam.__exit__ of Beam b: the body of the innermost open `with b:` ends
BeamExit(b) ==
    /\ open[b] > 0
    /\ \E now \in perf_counter :
          /\ end_times' = [end_times EXCEPT ![b] = Append(@, now)]
          /\ clock' = now
    /\ start' = [start EXCEPT ![b] = Nothing]
    /\ open' = [open EXCEPT ![b] = @ - 1]
    /\ last' = BeamRet("beam_exit", b, <<>>, "none")
    /\ UNCHANGED <<ctxVars, beamObjs, storeVars, stack, start_times>>

\* Beam.clear of Beam b, inside or outside its `with` scopes
BeamClear(b) ==
    /\ b <= nbeams
    /\ clear(b)
    /\ last' = BeamRet("beam_clear", b, <<>>, "none")
    /\ UNCHANGED <<ctxVars, beamObjs, storeVars, stack, open, clock>>

\* Beam.timings of Beam b is read
BeamTimings(b) ==
    /\ b <= nbeams
    /\ last' = BeamRet("timings", b, timings(b).value, timings(b).err)
    /\ UNCHANGED <<ctxVars, beamObjs, storeVars, stack, beamVars>>

\* ContextStore.track_beam(b), for a Beam b that exists and has not been
\* attributed yet (a Beam is announced to the store once)
TrackBeam(b) ==
    /\ b <= nbeams
    /\ ~IsTracked(b)
    /\ track_beam(b)
    /\ last' = Ret("track_beam", head, None, Nothing, Nothing, <<>>, "none", FALSE)
    /\ UNCHANGED <<nctx, name, parent, child, beamObjs, storeVars, stack>>

\* ContextStore.get_trace(name=nm, idx=idx)
GetTrace(nm, idx) ==
    /\ last' = Ret("get_trace", None, None, nm, idx, get_trace(nm, idx).beams,
                   get_trace(nm, idx).err, get_trace(nm, idx).err # "none")
    /\ UNCHANGED <<ctxVars, beamObjs, storeVars, stack>>

\* result = ContextStore.get_trace(): the caller keeps the list returned
KeepTrace ==
    /\ GetTrace(Nothing, Nothing)
    /\ result' = get_trace(Nothing, Nothing).beams
    /\ UNCHANGED beamVars

\* result[i].clear(): the caller clears an element of the list it holds.  An
\* element that is a reference to a live Beam clears that Beam.
ResultClear(i) ==
    /\ i \in 1..Len(result)
    /\ IF "ref" \in DOMAIN result[i]
       THEN /\ clear(result[i].ref)
            /\ UNCHANGED <<result, open, clock>>
       ELSE /\ result' = [result EXCEPT ![i].start_times = <<>>,
                                          ![i].end_times = <<>>]
            /\ UNCHANGED beamVars
    /\ last' = Ret("result_clear", None, None, Nothing, Nothing, <<>>, "none", FALSE)
    /\ UNCHANGED <<ctxVars, beamObjs, storeVars, stack>>

\* Mutant of ClearTraceHistory: the new store keeps the old history bound.
ClearTraceHistory_keep_bound(env) ==
    /\ IF get_hist_len(env).err = "none"
       THEN /\ root' = None
            /\ head' = None
            /\ trace_history' = <<>>
            /\ completed' = <<>>
            /\ UNCHANGED maxlen
       ELSE UNCHANGED storeVars
    /\ last' = [Ret("clear_trace_history", None, None, Nothing, Nothing, <<>>,
                    get_hist_len(env).err, get_hist_len(env).err # "none")
                    EXCEPT !.env = env]
    /\ UNCHANGED <<ctxVars, beamObjs, stack>>

\* clear_trace_history(), called while the environment variable reads env
ClearTraceHistory(env) ==
    /\ IF get_hist_len(env).err = "none"
       THEN /\ root' = None
            /\ head' = None
            /\ trace_history' = <<>>
            /\ maxlen' = get_hist_len(env).size
            /\ completed' = <<>>
       ELSE UNCHANGED storeVars
    /\ last' = [Ret("clear_trace_history", None, None, Nothing, Nothing, <<>>,
                    get_hist_len(env).err, get_hist_len(env).err # "none")
                    EXCEPT !.env = env]
    /\ UNCHANGED <<ctxVars, beamObjs, stack>>

\* Thread t calls store operation o and enters its `with _lock:` block.  A
\* call of clear_trace_history is made with the environment variable at one
\* of its values.
LockEnter(t, o) ==
    /\ pc[t] = Idle
    /\ o = "push" => nctx < MaxLockCtx
    /\ o = "pop" => stack[t] # <<>>
    /\ o = "track_beam" => \E b \in Beam : b <= nbeams /\ ~IsTracked(b)
    /\ acquire(t)
    /\ \E env \in (IF o = "clear_trace_history" THEN EnvValues ELSE {Nothing}) :
          pc' = [pc EXCEPT ![t] = [op |-> o, at |-> "body", env |-> env]]
    /\ UNCHANGED <<ctxVars, beamObjs, storeVars, stack, last, beamVars, result>>

\* Thread t runs the body of the `with _lock:` block of its operation.  The
\* body of clear_trace_history reads the environment and calls
\* _ContextStore.__init__, whose _reset enters `with _lock:` once more.
LockBody(t) ==
    /\ pc[t].at = "body"
    /\ UNCHANGED <<beamVars, result>>
    /\ \/ /\ pc[t].op = "push"
          /\ Enter(t, TracedFn)
          /\ pc' = [pc EXCEPT ![t].at = "exit"]
          /\ UNCHANGED lock
       \/ /\ pc[t].op = "pop"
          /\ Exit(t, FALSE)
          /\ pc' = [pc EXCEPT ![t].at = "exit"]
          /\ UNCHANGED lock
       \/ /\ pc[t].op = "track_beam"
          /\ \E b \in Beam : TrackBeam(b)
          /\ pc' = [pc EXCEPT ![t].at = "exit"]
          /\ UNCHANGED lock
       \/ /\ pc[t].op = "get_trace"
          /\ GetTrace(Nothing, Nothing)
          /\ pc' = [pc EXCEPT ![t].at = "exit"]
          /\ UNCHANGED lock
       \/ /\ pc[t].op = "clear_trace_history"
          /\ IF get_hist_len(pc[t].env).err # "none"
             THEN /\ ClearTraceHistory(pc[t].env)
                  /\ pc' = [pc EXCEPT ![t].at = "exit"]
                  /\ UNCHANGED lock
             ELSE /\ acquire(t)
                  /\ pc' = [pc EXCEPT ![t].at = "reset"]
                  /\ UNCHANGED <<ctxVars, beamObjs, storeVars, stack, last>>

\* Thread t runs the body of _reset's `with _lock:` block on the new store,
\* leaves that block, and the new store is bound to ContextStore.
LockReset(t) ==
    /\ pc[t].at = "reset"
    /\ ClearTraceHistory(pc[t].env)
    /\ release(t)
    /\ pc' = [pc EXCEPT ![t].at = "exit"]
    /\ UNCHANGED <<beamVars, result>>

\* Thread t leaves the `with _lock:` block of its operation.
LockExit(t) ==
    /\ pc[t].at = "exit"
    /\ release(t)
    /\ pc' = [pc EXCEPT ![t] = Idle]
    /\ UNCHANGED <<ctxVars, beamObjs, storeVars, stack, last, beamVars, result>>

\* ---------------------------------------------------------- specifications
\* Threads tracing one decorated function, every operation at any time;
\* get_trace is called without arguments.  The operations that touch no
\* per-thread state (every one but scope entry and exit) are atomic under
\* _lock, so which thread calls them makes no difference to the state.
Next ==
    /\ UNCHANGED <<beamVars, lockVars, result>>
    /\ \/ \E t \in Threads : nctx < MaxConcCtx /\ Enter(t, TracedFn)
       \/ \E t \in Threads, exc \in BOOLEAN : Exit(t, exc)
       \/ nbeams < MaxConcBeams /\ BeamInit
       \/ \E b \in Beam : TrackBeam(b)
       \/ GetTrace(Nothing, Nothing)
       \/ \E env \in EnvValues : ClearTraceHistory(env)

Spec == Init /\ [][Next]_vars

\* One thread whose scopes nest properly; the history is cleared only between
\* top-level traced calls.
NextSeq ==
    /\ UNCHANGED <<beamVars, lockVars, result>>
    /\ \/ nctx < MaxSeqCtx /\ Enter(1, TracedFn)
       \/ \E exc \in BOOLEAN : Exit(1, exc)
       \/ BeamInit
       \/ \E b \in Beam : TrackBeam(b)
       \/ GetTrace(Nothing, Nothing)
       \/ \E env \in EnvValues : stack[1] = <<>> /\ ClearTraceHistory(env)

SpecSeq == Init /\ [][NextSeq]_vars

\* One thread tracing functions of either name, one call after or inside the
\* other, each returning normally; get_trace is called with every combination
\* of name and index.
NextQuery ==
    /\ UNCHANGED <<beamVars, lockVars, result>>
    /\ \/ \E n \in Names : nctx < MaxQueryCtx /\ Enter(1, n)
       \/ Exit(1, FALSE)
       \/ nbeams < MaxQueryBeams /\ BeamInit
       \/ \E b \in Beam : TrackBeam(b)
       \/ \E nm \in NameArgs, idx \in IdxArgs : GetTrace(nm, idx)

SpecQuery == Init /\ [][NextQuery]_vars

\* One thread that times blocks with a Beam, in and out of a traced call:
\* the Beam is entered (also inside its own open scope), exited, cleared and
\* its timings are read in any order.
NextBeam ==
    /\ UNCHANGED <<lockVars, result>>
    /\ \/ nbeams < MaxTimedBeams /\ BeamInit
       \/ \E b \in Beam : BeamEnter(b)
       \/ \E b \in Beam : BeamExit(b)
       \/ \E b \in Beam : BeamClear(b)
       \/ \E b \in Beam : BeamTimings(b)

SpecBeam == Init /\ [][NextBeam]_vars

\* One thread that constructs, announces, enters and exits Beams before,
\* inside and after traced calls.
NextUntracked ==
    /\ UNCHANGED <<lockVars, result>>
    /\ \/ nctx < MaxTimedCtx /\ Enter(1, TracedFn) /\ UNCHANGED beamVars
       \/ Exit(1, FALSE) /\ UNCHANGED beamVars
       \/ nbeams < MaxTimedBeams /\ BeamInit
       \/ \E b \in Beam : TrackBeam(b) /\ UNCHANGED beamVars
       \/ \E b \in Beam : BeamEnter(b)
       \/ \E b \in Beam : BeamExit(b)

SpecUntracked == Init /\ [][NextUntracked]_vars

\* One thread that traces calls, times blocks with Beams announced to the
\* store, keeps what get_trace returns and goes on using the Beams and the
\* list it holds.  Its timed blocks follow one another: a Beam is entered
\* when no `with` block of a Beam is open.
NextResult ==
    /\ UNCHANGED lockVars
    /\ \/ nctx < MaxTimedCtx /\ Enter(1, TracedFn) /\ UNCHANGED <<beamVars, result>>
       \/ Exit(1, FALSE) /\ UNCHANGED <<beamVars, result>>
       \/ nbeams < MaxTimedBeams /\ BeamInit /\ UNCHANGED result
       \/ \E b \in Beam : TrackBeam(b) /\ UNCHANGED <<beamVars, result>>
       \/ \E b \in Beam : (\A o \in Beam : open[o] = 0) /\ BeamEnter(b) /\ UNCHANGED result
       \/ \E b \in Beam : BeamExit(b) /\ UNCHANGED result
       \/ \E b \in Beam : BeamClear(b) /\ UNCHANGED result
       \/ KeepTrace
       \/ \E i \in 1..MaxBeams : ResultClear(i)

SpecResult == Init /\ [][NextResult]_vars

\* Threads that only enter and exit fresh trace contexts, each thread's scopes
\* properly nested; the history is never cleared.
NextNest ==
    /\ UNCHANGED <<beamVars, lockVars, result>>
    /\ \/ \E t \in Threads : Enter(t, TracedFn)
       \/ \E t \in Threads, exc \in BOOLEAN : Exit(t, exc)

SpecNest == Init /\ [][NextNest]_vars

\* Threads calling the store operations, each operation in steps: the lock is
\* taken, the body runs, the lock is given back.  Beams are constructed
\* without the lock.
NextLock ==
    \/ \E t \in Threads, o \in LockOps : LockEnter(t, o)
    \/ \E t \in Threads : LockBody(t)
    \/ \E t \in Threads : LockReset(t)
    \/ \E t \in Threads : LockExit(t)
    \/ nbeams < MaxLockBeams /\ BeamInit /\ UNCHANGED <<lockVars, result>>

SpecLock == Init /\ [][NextLock]_vars

\* Threads that enter and exit trace contexts and clear the history, each
\* operation in steps.  A thread inside a `with _lock:` block either runs or
\* waits for the lock; the interpreter goes on scheduling every thread that
\* can run, so a step of a thread that stays possible is taken.
NextReentrant ==
    \/ \E t \in Threads, o \in {"push", "pop", "clear_trace_history"} : LockEnter(t, o)
    \/ \E t \in Threads : LockBody(t)
    \/ \E t \in Threads : LockReset(t)
    \/ \E t \in Threads : LockExit(t)

SpecReentrant ==
    /\ Init
    /\ [][NextReentrant]_vars
    /\ \A t \in Threads : WF_vars(LockBody(t) \/ LockReset(t) \/ LockExit(t))

\* One thread that enters fresh TraceContext objects and enters again objects
\* it constructed earlier, as scopes that nest properly.
CanEnterAgain ==
    /\ Len(stack[1]) < MaxReentryDepth
    /\ Len(completed) < MaxReentryTraces

NextReentry ==
    /\ UNCHANGED <<beamVars, lockVars, result>>
    /\ \/ nctx < MaxReentryCtx /\ CanEnterAgain /\ Enter(1, TracedFn)
       \/ \E c \in Ctx : CanEnterAgain /\ ReEnter(1, c)
       \/ Exit(1, FALSE)

SpecReentry == Init /\ [][NextReentry]_vars

\* ------------------------------------------------------------------ claims
\* The outermost ancestor of context c by parent links.
RECURSIVE RootOf(_)
RootOf(c) == IF parent[c] = None THEN c ELSE RootOf(parent[c])

\* The context n parent links above c (None when there is none).
RECURSIVE Ancestor(_, _)
Ancestor(c, n) ==
    IF c = None \/ n = 0 THEN c ELSE Ancestor(parent[c], n - 1)

\* The nodes from c along the child links, c first.
RECURSIVE ChainOf(_)
ChainOf(c) == IF c = None THEN <<>> ELSE <<c>> \o ChainOf(child[c])

InSeq(x, s) == \E i \in 1..Len(s) : s[i] = x

\* The number of beams of the first j - 1 nodes of the chain ch.
RECURSIVE Offset(_, _)
Offset(ch, j) ==
    IF j <= 1 THEN 0 ELSE Offset(ch, j - 1) + Len(beams[ch[j - 1]])

\* res is the concatenation, in chain order, of the beams of the chain that
\* starts at r, each node's beams in their insertion order.
IsFlattening(res, r) ==
    LET ch == ChainOf(r)
    IN  /\ Len(res) = Offset(ch, Len(ch) + 1)
        /\ \A j \in 1..Len(ch) : \A k \in 1..Len(beams[ch[j]]) :
               res[Offset(ch, j) + k].id = beams[ch[j]][k]

\* C1 (SpecSeq): once a chain has unwound into the history, every beam that was
\* given to track_beam while a context pushed under that root was the head
\* (the beams of every context whose outermost ancestor is that root) is in
\* get_trace's result for that root.
C1_TraceCompleteness ==
    \A i \in 1..Len(trace_history) : \A c \in 1..nctx :
        RootOf(c) = trace_history[i] =>
            \A k \in 1..Len(beams[c]) :
                \E j \in 1..Len(get_trace(Nothing, Some(i - 1)).beams) :
                    get_trace(Nothing, Some(i - 1)).beams[j].id = beams[c][k]

\* C2 (SpecSeq): the head is the innermost open scope of the thread, the scope
\* N levels out is the ancestor N parent links above the deepest one, and the
\* head is none once every scope has been exited.
C2_LifoHead ==
    /\ head = IF stack[1] = <<>> THEN None ELSE Top(stack[1])
    /\ \A i \in 1..Len(stack[1]) :
           Ancestor(Top(stack[1]), Len(stack[1]) - i) = stack[1][i]
    /\ stack[1] # <<>> => Ancestor(Top(stack[1]), Len(stack[1])) = None

\* Three scopes were entered and one exited: the head is the second.
C2_Witness ==
    /\ last.op = "exit"
    /\ nctx = 3
    /\ Len(stack[1]) = 2
    /\ head = 2
    /\ last.popped = 3

\* C3 (Spec): root is none exactly when head is none.
C3_RootIffHead == (root = None) <=> (head = None)

\* A pop by one thread emptied the store while another thread's scope is open.
C3_Witness ==
    /\ last.op = "exit"
    /\ last.popped # None
    /\ root = None
    /\ head = None
    /\ \E t \in Threads : stack[t] # <<>>

\* C4 (SpecSeq): while head is not none it is on the chain of child links that
\* starts at root.
C4_HeadReachable == head # None => InSeq(head, ChainOf(root))

\* A second child was pushed under a parent whose first child was popped.
C4_Witness ==
    /\ last.op = "enter"
    /\ head = 3
    /\ parent[3] = 1
    /\ parent[2] = 1
    /\ root = 1

\* The nodes of the active chain: from root along the child links to head.
ActiveChain == IF root = None THEN {} ELSE {ChainOf(root)[i] : i \in 1..Len(ChainOf(root))}

\* C5 (Spec): a context enters the history only in a step that is a scoped
\* exit whose pop leaves head and root none, that context is the root of the
\* chain and has no parent; and no history entry, nor any context linked below
\* one, is on the active chain.
C5_HistoryOnlyWhenUnwound ==
    /\ [](\A i \in 1..Len(trace_history) :
             \A j \in 1..Len(ChainOf(trace_history[i])) :
                 ChainOf(trace_history[i])[j] \notin ActiveChain)
    /\ [][\A c \in Ctx :
             (InSeq(c, trace_history') /\ ~InSeq(c, trace_history)) =>
                 /\ \E t \in Threads, e \in BOOLEAN : Exit(t, e)
                 /\ head = c
                 /\ root = c
                 /\ parent[c] = None
                 /\ head' = None
                 /\ root' = None]_vars

\* A chain of two contexts has unwound into the history.
C5_Witness ==
    /\ last.op = "exit"
    /\ trace_history # <<>>
    /\ child[Top(trace_history)] # None
    /\ last.popped = Top(trace_history)

\* C6 (SpecSeq): with a maximum history size M the history never holds more
\* than M entries, and once more than M traces have completed it holds exactly
\* the M most recently completed roots, oldest first.
C6_BoundedHistory ==
    maxlen # Nothing =>
        /\ Len(trace_history) <= maxlen[1]
        /\ Len(completed) > maxlen[1] =>
               trace_history = SubSeq(completed, Len(completed) - maxlen[1] + 1,
                                      Len(completed))

\* Three traces completed under a bound of two.
C6_Witness ==
    /\ last.op = "exit"
    /\ maxlen = Some(2)
    /\ Len(completed) = 3
    /\ Len(trace_history) = 2

\* C7 (SpecSeq): right after a Beam is constructed while a trace context is
\* active, that Beam is the last element of the head's beam sequence.
C7_AttributionAtConstruction ==
    (last.op = "Beam" /\ head # None) =>
        (beams[head] # <<>> /\ Top(beams[head]) = nbeams)

\* C8 (SpecSeq): for every history entry get_trace returns, without error, the
\* beams of root, then of its child, and so on down the chain, each node's in
\* insertion order; get_trace() without arguments returns that of the newest.
C8_FlatteningOrder ==
    /\ \A i \in 1..Len(trace_history) :
           /\ get_trace(Nothing, Some(i - 1)).err = "none"
           /\ IsFlattening(get_trace(Nothing, Some(i - 1)).beams, trace_history[i])
    /\ (last.op = "get_trace" /\ last.nm = Nothing /\ last.idx = Nothing
            /\ trace_history # <<>>) =>
           (last.err = "none" /\ IsFlattening(last.beams, Top(trace_history)))

\* outer holds beam 1, inner holds beam 2: get_trace() returned [1, 2] and the
\* history has one entry.
C8_Witness ==
    /\ last.op = "get_trace"
    /\ Len(trace_history) = 1
    /\ child[trace_history[1]] # None
    /\ beams[trace_history[1]] = <<1>>
    /\ beams[child[trace_history[1]]] = <<2>>
    /\ Len(last.beams) = 2
    /\ last.beams[1].id = 1
    /\ last.beams[2].id = 2

\* C9 (SpecSeq): when the outermost scope of the thread exits, after a normal
\* return or after an error, root and head are none, the history has one more
\* entry (as far as its bound allows) and an error goes on to the caller.
C9_PopOnEveryExitPath ==
    [][\A e \in BOOLEAN :
          (Exit(1, e) /\ Len(stack[1]) = 1) =>
              /\ root' = None
              /\ head' = None
              /\ Len(trace_history') =
                     IF maxlen = Nothing THEN Len(trace_history) + 1
                     ELSE Min(Len(trace_history) + 1, maxlen[1])
              /\ last'.raised = e]_vars

\* A top-level call that held a nested call ended by raising.
C9_Witness ==
    /\ last.op = "exit"
    /\ last.raised
    /\ stack[1] = <<>>
    /\ root = None
    /\ Len(trace_history) = 2
    /\ child[Top(trace_history)] # None

\* C10 (Spec): the node a scoped exit removes from the head of the store is the
\* context whose scope is exited.
C10_ExitPopsSelf ==
    (last.op = "exit" /\ last.popped # None) => last.popped = last.ctx

\* C12 (Spec): when a thread with no open scope enters a fresh context while
\* the head is the root, alone on the chain, and is the open scope of another
\* thread, the new context becomes the head and the child of the old head, root
\* stays, and the history is untouched; a context with a parent is never in
\* the history, and a scoped exit that empties the store appends the root, once.
C12_SharedChain ==
    /\ [](\A i \in 1..Len(trace_history) : parent[trace_history[i]] = None)
    /\ [][/\ \A t1 \in Threads, t2 \in Threads :
               (/\ t1 # t2
                /\ stack[t2] = <<>>
                /\ stack[t1] # <<>>
                /\ head = Top(stack[t1])
                /\ root = head
                /\ Enter(t2, TracedFn)) =>
                   /\ head' = nctx'
                   /\ root' = root
                   /\ child'[head] = head'
                   /\ parent'[head'] = head
                   /\ trace_history' = trace_history
          /\ ((\E t \in Threads, e \in BOOLEAN : Exit(t, e))
                  /\ head # None /\ head' = None) =>
                 completed' = Append(completed, root)]_vars

\* Thread 1 entered context 1, thread 2 entered context 2 under it, both
\* scopes were exited and the history holds context 1 alone.
C12_Witness ==
    /\ last.op = "exit"
    /\ last.ctx # last.popped
    /\ last.popped = 1
    /\ child[1] = 2
    /\ parent[2] = 1
    /\ completed = <<1>>
    /\ \A t \in Threads : stack[t] = <<>>

\* C16 (Spec): get_trace() without arguments on an empty history returns the
\* empty sequence and raises nothing.
C16_EmptyHistoryNoArgs ==
    (last.op = "get_trace" /\ last.nm = Nothing /\ last.idx = Nothing
        /\ trace_history = <<>>) =>
        (last.beams = <<>> /\ last.err = "none" /\ ~last.raised)

\* get_trace() was called on an empty history while a trace is in flight.
C16_Witness ==
    /\ last.op = "get_trace"
    /\ last.nm = Nothing
    /\ last.idx = Nothing
    /\ trace_history = <<>>
    /\ head # None

\* The positions of the history entries whose root is named n.
Named(n) == {i \in 1..Len(trace_history) : name[trace_history[i]] = n}

\* The largest element of a non-empty set of numbers.
Max(S) == CHOOSE x \in S : \A y \in S : y <= x

\* C17 (SpecQuery): get_trace(name=X) on a non-empty history raises nothing and
\* returns the flattened beams of the most recently completed trace named X,
\* or the empty sequence when no completed trace is named X.
C17_NameLookup ==
    (last.op = "get_trace" /\ last.nm # Nothing /\ last.idx = Nothing
        /\ trace_history # <<>>) =>
        /\ last.err = "none"
        /\ IF Named(last.nm[1]) = {} THEN last.beams = <<>>
           ELSE IsFlattening(last.beams, trace_history[Max(Named(last.nm[1]))])

\* Whether i is a position of the history, as Python counts them.
ValidIdx(i) == -Len(trace_history) <= i /\ i < Len(trace_history)

\* The history entry at Python position i.
EntryAt(i) ==
    IF i >= 0 THEN trace_history[i + 1] ELSE trace_history[Len(trace_history) + i + 1]

\* C18 as stated (SpecQuery): get_trace(idx=i) returns the flattening of the
\* entry at position i, and fails with IndexError whenever i is no position
\* of the history, the empty history included.
C18_IndexLookupAsStated ==
    (last.op = "get_trace" /\ last.idx # Nothing) =>
        IF ValidIdx(last.idx[1])
        THEN last.err = "none" /\ IsFlattening(last.beams, EntryAt(last.idx[1]))
        ELSE last.err = "IndexError" /\ last.raised

\* C18 as amended (SpecQuery): on a non-empty history get_trace(idx=i) returns
\* the flattening of the entry at position i and fails with IndexError when i
\* is no position of it; on the empty history it returns the empty sequence
\* and raises nothing, whatever i is.
C18_IndexLookup ==
    (last.op = "get_trace" /\ last.idx # Nothing) =>
        IF trace_history = <<>>
        THEN last.err = "none" /\ ~last.raised /\ last.beams = <<>>
        ELSE IF ValidIdx(last.idx[1])
        THEN last.err = "none" /\ IsFlattening(last.beams, EntryAt(last.idx[1]))
        ELSE last.err = "IndexError" /\ last.raised

\* get_trace(idx=-2) returned the beam of the older of two history entries.
C18_Witness ==
    /\ last.op = "get_trace"
    /\ last.idx = Some(-2)
    /\ Len(trace_history) = 2
    /\ beams[trace_history[1]] = <<1>>
    /\ Len(last.beams) = 1
    /\ last.beams[1].id = 1

\* C19 (Spec): right after clear_trace_history was called while the
\* environment variable was unset or a numeral, root and head are none and the
\* history is empty, with the bound the variable stated (none when unset), and
\* nothing was raised.
C19_ClearInstallsFreshStore ==
    (/\ last.op = "clear_trace_history"
     /\ (last.env = Nothing \/ \E m \in 0..MaxHist : last.env = Some(ToString(m)))) =>
        /\ root = None
        /\ head = None
        /\ trace_history = <<>>
        /\ last.env = Nothing => maxlen = Nothing
        /\ \A m \in 0..MaxHist : last.env = Some(ToString(m)) => maxlen = Some(m)
        /\ ~last.raised

\* The store was cleared with the variable set to 1 while a scope was open.
C19_Witness ==
    /\ last.op = "clear_trace_history"
    /\ last.err = "none"
    /\ maxlen = Some(1)
    /\ root = None
    /\ trace_history = <<>>
    /\ \E t \in Threads : stack[t] # <<>>

\* Whether thread t is inside a `with _lock:` block.
InCritical(t) == pc[t].at \in {"body", "reset", "exit"}

\* C11 (SpecLock): a thread inside the `with _lock:` block of push, pop,
\* track_beam, get_trace, _reset or clear_trace_history owns the lock, so no
\* two threads are inside such blocks at once; and every step that writes
\* root, head or the history, or that completes a read of them, is taken by
\* the thread that owns the lock.
C11_MutualExclusion ==
    /\ [](\A t \in Threads : InCritical(t) => (lock.owner = t /\ lock.count > 0))
    /\ [](\A t1 \in Threads, t2 \in Threads :
             (InCritical(t1) /\ InCritical(t2)) => t1 = t2)
    /\ [][(\/ <<root, head, trace_history>>' # <<root, head, trace_history>>
           \/ (last' # last /\ last'.op \in {"enter", "exit", "track_beam",
                                                "get_trace", "clear_trace_history"}))
              => /\ lock.owner # None
                 /\ InCritical(lock.owner)
                 /\ pc'[lock.owner] # pc[lock.owner]]_vars

\* Thread 1 is in _reset, inside both `with _lock:` blocks of
\* clear_trace_history, while thread 2 has a scope open and is in no
\* operation.
C11_Witness ==
    /\ pc[1].at = "reset"
    /\ lock = [owner |-> 1, count |-> 2]
    /\ pc[2] = Idle
    /\ stack[2] # <<>>
    /\ head # None

\* C13 (SpecBeam): reading timings of a Beam while a `with` scope of it is
\* open raises RuntimeError.
C13_TimingsWhileOpen ==
    (last.op = "timings" /\ open[last.beam] > 0) =>
        (last.err = "RuntimeError" /\ last.raised)

\* C14 (SpecBeam): reading timings of a Beam with no scope open raises
\* nothing and returns one duration for each activation completed since the
\* Beam was constructed or last cleared (each exit appends one stop and clear
\* empties the stops, so their number is the length of end_times), the i-th
\* being end_times[i] - start_times[i].
C14_CompletedTimings ==
    (last.op = "timings" /\ open[last.beam] = 0) =>
        /\ last.err = "none"
        /\ Len(last.timings) = Len(end_times[last.beam])
        /\ \A i \in 1..Len(last.timings) :
               last.timings[i] = end_times[last.beam][i] - start_times[last.beam][i]

\* C15 (SpecBeam): for every Beam, start_times and end_times have the same
\* length when no scope of it is open, and start_times has exactly one more
\* element while one is.
C15_LengthInvariant ==
    \A b \in 1..nbeams :
        Len(start_times[b]) = Len(end_times[b]) + (IF open[b] > 0 THEN 1 ELSE 0)

\* C20 (SpecUntracked): while no trace context is active, constructing a
\* Beam, entering it, exiting it and announcing it to the store raise nothing
\* and leave root and head none and the history, with the beams of its
\* entries, as it was.
C20_UntrackedBeams ==
    [][(/\ head = None
        /\ \/ BeamInit
           \/ \E b \in Beam : BeamEnter(b) \/ BeamExit(b) \/ TrackBeam(b))
           => /\ root = None
              /\ root' = None
              /\ head' = None
              /\ trace_history' = trace_history
              /\ beams' = beams
              /\ last'.err = "none"
              /\ ~last'.raised]_vars

\* After a trace completed, a Beam that no context holds was entered and
\* exited with no context active.
C20_Witness ==
    /\ last.op = "beam_exit"
    /\ head = None
    /\ root = None
    /\ trace_history # <<>>
    /\ ~IsTracked(last.beam)
    /\ Len(end_times[last.beam]) = 1

\* C21 (Spec): a scoped exit whose pop finds the head none raises nothing
\* and leaves root, head and the history as they were.
C21_PopOnEmpty ==
    [][(last'.op = "exit" /\ head = None) =>
          /\ root' = root
          /\ head' = None
          /\ trace_history' = trace_history
          /\ completed' = completed
          /\ last'.popped = None
          /\ last'.err = "none"]_vars

\* A scope entered before the store was cleared was exited after a later
\* trace had completed: its pop found the store empty.
C21_Witness ==
    /\ last.op = "exit"
    /\ last.popped = None
    /\ head = None
    /\ trace_history # <<>>

\* C22 (SpecNest): a parent link or child link that designates a context is
\* never afterwards changed.
C22_AppendOnlyLinks ==
    [][\A c \in Ctx :
          /\ child[c] # None => child'[c] = child[c]
          /\ parent[c] # None => parent'[c] = parent[c]]_vars

\* The context n child links below c (None when there is none).
RECURSIVE Descendant(_, _)
Descendant(c, n) ==
    IF c = None \/ n = 0 THEN c ELSE Descendant(child[c], n - 1)

\* C25 (SpecNest): from every context the parent links, and the child links,
\* lead to none within as many steps as there are contexts, and no context
\* is met twice on the way.
C25_AcyclicChain ==
    \A c \in 1..nctx :
        /\ Ancestor(c, nctx) = None
        /\ Descendant(c, nctx) = None
        /\ \A i \in 0..nctx, j \in 0..nctx :
               i < j =>
                   /\ Ancestor(c, j) # None => Ancestor(c, j) # Ancestor(c, i)
                   /\ Descendant(c, j) # None => Descendant(c, j) # Descendant(c, i)

\* Two threads built a chain of three contexts.
C25_Witness ==
    /\ head = 3
    /\ Ancestor(3, 2) = 1
    /\ Descendant(1, 2) = 3
    /\ \A t \in Threads : stack[t] # <<>>

\* The scopes entered and not yet exited, over all threads.
RECURSIVE OpenScopes(_)
OpenScopes(t) == IF t = 0 THEN 0 ELSE Len(stack[t]) + OpenScopes(t - 1)

\* The number of contexts on the active chain, from head up to root.
ActiveDepth == Cardinality({n \in 0..nctx : Ancestor(head, n) # None})

\* C27 (SpecNest): the active chain is as deep as the number of scopes
\* entered and not yet exited and ends at root; once every scope has been
\* exited root and head are none.
C27_NoStaleHead ==
    /\ ActiveDepth = OpenScopes(NumThreads)
    /\ head # None => Ancestor(head, ActiveDepth - 1) = root
    /\ OpenScopes(NumThreads) = 0 => (root = None /\ head = None)

\* Two threads' scopes overlapped, one ended by raising, and all have been
\* exited.
C27_Witness ==
    /\ last.op = "exit"
    /\ last.raised
    /\ last.ctx # last.popped
    /\ OpenScopes(NumThreads) = 0
    /\ Len(completed) = 1

\* The contexts pushed under p.
Children(p) == {c \in 1..nctx : parent[c] = p}

\* C29 (SpecNest): a scoped exit leaves every parent link, child link and
\* beam sequence as it was, and root and the history too unless the store
\* empties; and once the chain has unwound, the context pushed last under
\* each parent is on the chain of child links from that parent's root.
C29_PopLeavesChain ==
    /\ [][last'.op = "exit" =>
             /\ child' = child
             /\ parent' = parent
             /\ beams' = beams
             /\ head' # None => (root' = root /\ trace_history' = trace_history)]_vars
    /\ [](root = None =>
             \A p \in 1..nctx :
                 Children(p) # {} => InSeq(Max(Children(p)), ChainOf(RootOf(p))))

C30_ClearResets ==
    [][\A b \in Beam :
          (last'.op = "beam_clear" /\ last'.beam = b /\ open[b] = 0) =>
              /\ start_times'[b] = <<>>
              /\ end_times'[b] = <<>>
              /\ start'[b] = Nothing
              /\ timings(b)' = [err |-> "none", value |-> <<>>]
              /\ beam_name' = beam_name
              /\ beam_id' = beam_id
              /\ (last.op = "beam_clear" /\ last.beam = b) =>
                     UNCHANGED <<start_times, end_times, start>>]_vars

\* A Beam that had recorded one activation was cleared with no scope open.
C30_Witness ==
    /\ last.op = "beam_clear"
    /\ open[last.beam] = 0
    /\ clock = 2
    /\ start_times[last.beam] = <<>>
    /\ end_times[last.beam] = <<>>
    /\ beam_name[last.beam] = BeamName

\* The start and stop sequences an element of a returned list shows: its own
\* when it is a copy, the live Beam's when it is a reference.
Shown(o) ==
    IF "ref" \in DOMAIN o
    THEN <<start_times[o.ref], end_times[o.ref]>>
    ELSE <<o.start_times, o.end_times>>

\* C23 (SpecResult): entering, exiting or clearing a live Beam changes the
\* start and stop sequences of no element of a list get_trace returned
\* earlier, and clearing an element of that list changes no live Beam.
C23_SnapshotIndependence ==
    [][/\ last'.op \in {"beam_enter", "beam_exit", "beam_clear"} =>
             /\ Len(result') = Len(result)
             /\ \A i \in 1..Len(result) : Shown(result[i])' = Shown(result[i])
       /\ last'.op = "result_clear" =>
             UNCHANGED <<start_times, end_times, start, beam_name, beam_id>>]_vars

\* The list get_trace returned holds a copy with one activation while the
\* live Beam has gone on to record a second.
C23_Witness ==
    /\ last.op = "beam_exit"
    /\ Len(result) = 1
    /\ Len(result[1].start_times) = 1
    /\ result[1].id = beam_id[last.beam]
    /\ Len(start_times[last.beam]) = 2
    /\ Len(end_times[last.beam]) = 2

\* C24 (SpecResult): entering, exiting or clearing a live Beam changes, for
\* no history entry, what get_trace returns for it.
C24_HistoryIndependence ==
    [][last'.op \in {"beam_enter", "beam_exit", "beam_clear"} =>
          \A i \in 1..Len(trace_history) :
              get_trace(Nothing, Some(i - 1))' = get_trace(Nothing, Some(i - 1))]_vars


\* C26 (SpecReentrant): the thread inside clear_trace_history's block that
\* constructs the new store owns the lock twice while _reset runs, every
\* call of clear_trace_history completes, and the lock is free whenever no
\* thread is inside a store operation.
C26_LockReentrancy ==
    /\ [](\A t \in Threads :
            /\ pc[t].at = "reset" => (lock.owner = t /\ lock.count = 2)
            /\ (pc[t].at \in {"body", "exit"}) => (lock.owner = t /\ lock.count = 1))
    /\ []((\A t \in Threads : pc[t] = Idle) => lock = [owner |-> None, count |-> 0])
    /\ \A t \in Threads :
          (pc[t].op = "clear_trace_history") ~> (pc[t] = Idle)

\* A thread that cleared the history through _reset has left the operation
\* and the lock is free.
C26_Witness ==
    /\ last.op = "clear_trace_history"
    /\ ~last.raised
    /\ \A t \in Threads : pc[t] = Idle
    /\ lock = [owner |-> None, count |-> 0]


\* C31 (SpecBeam): for every Beam and every index present in both of its
\* sequences the start recorded at the index is not later than the stop
\* recorded at it, and no duration timings returns is negative.
C31_StartPrecedesStop ==
    /\ \A b \in Beam :
          \A i \in 1..Len(start_times[b]) :
              i <= Len(end_times[b]) => start_times[b][i] <= end_times[b][i]
    /\ last.op = "timings" =>
          \A i \in 1..Len(last.timings) : last.timings[i] >= 0


\* The store operations as the model records them: push is the scoped entry,
\* pop the scoped exit.
StoreOps == {"enter", "exit", "track_beam", "get_trace", "clear_trace_history"}

\* C32 (Spec): after the import no store operation raises the ValueError of
\* a history-size value that is no numeral, and a store operation that raises
\* leaves root, head and the history as they were.
C32_ConfigErrorOnlyAtStartup ==
    /\ []((last.op \in StoreOps) => (last.err # "ValueError"))
    /\ [][(last' # last /\ last'.op \in StoreOps /\ last'.err # "none") =>
             UNCHANGED <<root, head, trace_history>>]_vars


\* C33 (SpecReentry): from every history entry the walk of get_trace along
\* the child links reaches a context with no child, within as many steps as
\* there are contexts.
C33_GetTraceTerminates ==
    \A i \in 1..Len(trace_history) : Descendant(trace_history[i], nctx) = None


\* C34 (SpecQuery): get_trace called with a name and an index on a non-empty
\* history returns the flattening of the entry at the index, whatever the
\* name of its root, and fails with IndexError when the index is no position
\* of the history: what get_trace(idx=index) does.
C34_IndexBeforeName ==
    (last.op = "get_trace" /\ last.nm # Nothing /\ last.idx # Nothing
        /\ trace_history # <<>>) =>
        IF ValidIdx(last.idx[1])
        THEN /\ last.err = "none"
             /\ ~last.raised
             /\ IsFlattening(last.beams, EntryAt(last.idx[1]))
        ELSE last.err = "IndexError" /\ last.raised

\* get_trace(name="g", idx=0) returned the beam of a trace whose root is
\* named "f".
C34_Witness ==
    /\ last.op = "get_trace"
    /\ last.nm = Some("g")
    /\ last.idx = Some(0)
    /\ trace_history # <<>>
    /\ name[trace_history[1]] = "f"
    /\ Len(last.beams) = 1
    /\ last.err = "none"


\* Whether a `with` block of context c is open in some thread.
ScopeOpen(c) == \E t \in Threads : InSeq(c, stack[t])

\* Whether the store has just been reset while c was the root of a chain in
\* flight: c has no parent, its scope is open, and the new store is empty.
DiscardedRoot(c) ==
    /\ last.op = "clear_trace_history"
    /\ ~last.raised
    /\ c <= nctx
    /\ parent[c] = None
    /\ ScopeOpen(c)

\* C35, first part: no context is in the history while its own scope is open.
C35_AppendedAfterOwnExit ==
    \A i \in 1..Len(trace_history) : ~ScopeOpen(trace_history[i])

\* C35, second part: the root of a chain that was in flight when the store
\* was reset is never in the history afterwards.
C35_DiscardedRootStaysOut ==
    \A c \in Ctx : [](DiscardedRoot(c) => [](~InSeq(c, trace_history)))

\* C35 (Spec): when the store is reset while contexts are active, a context
\* is appended to the history only after its own scoped exit has run, and the
\* root of the discarded chain never appears in the history.
C35_ClearInFlight ==
    /\ []C35_AppendedAfterOwnExit
    /\ C35_DiscardedRootStaysOut

====
